---- MODULE Spec2Model ----
(***************************************************************************)
(* A model of the video-archive-tool orchestration core:                   *)
(*   - BatchProcessor.process_all       (src/src/processors/batch_processor.py) *)
(*   - StateManager (session store)     (src/src/database/state_manager.py)     *)
(*   - VideoArchiveApp phase-2 pipeline (src/src/main_phase2.py)                *)
(* Each component has its own specification over the shared variables:     *)
(* SpecBatch, SpecStore, SpecLog and SpecPipeline.                         *)
(***************************************************************************)
EXTENDS Integers, Sequences, FiniteSets, TLC

\* ------------------------------------------------------------------ bounds
\* number of MediaFile objects handed to process_all
NumFiles == 3
\* largest max_workers value tried
MaxWorkers == 2

VARIABLES
    \* ---- BatchProcessor / MediaFile / compositor
    media_files,      \* the MediaFile list: type, enabled, processed, error_message
    behaviour,        \* what the compositor did with each file: "ok", "fail", "raise"
                      \* ("unknown" until its process_file call has returned)
    parallel_images,  \* process_all argument
    max_workers,      \* process_all argument
    cancelled,        \* BatchProcessor.cancelled
    bpc,              \* where process_all (the calling thread) stands
    counts,           \* process_all: processed_count, failed_count, skipped_count
    loc,              \* the running helper: processed, failed, skipped
    idx,              \* the running sequential helper: enumerate index (0-based)
    start_index,      \* the running helper: start_index argument
    future,           \* ThreadPoolExecutor futures, by file: none/pending/running/finished
    completed_q,      \* futures finished and not yet yielded by as_completed
    nyielded,         \* futures as_completed has yielded
    in_progress,      \* files with a compositor.process_file call in progress
    peak_images,      \* most image files in progress at once so far
    started,          \* files whose process_file call has started in this run
    late_started,     \* files whose process_file call started after the flag was observed
    observed,         \* process_all has read cancelled = TRUE
    started_at_observe, \* the files started when the flag was first observed
    inflight_at_observe, \* the files inside the compositor at that moment
    vprog,            \* the encoder has called video_progress for the current video
    progress_calls,   \* the 'current' argument of each progress_callback call, in order
    summary,          \* what process_all returned
    process_log,      \* the file entries written to process_log.txt, in order
    \* ---- StateManager
    processing_state, \* the processing_state table: one row per session, in insert order
    session_id,       \* StateManager.session_id: the active session's row (0 = None)
    operation_log,    \* the operation_log table, in insert order
    wpc,              \* each worker thread's place inside log_operation
    wseq,             \* each worker thread's local 'sequence'
    now,              \* the database clock (CURRENT_TIMESTAMP), in days
    resumable,        \* what the last get_resumable_session call returned (0 = None)
    file_registry,    \* the file_registry table, in insert order
    \* ---- VideoArchiveApp (phase 2) and its main window
    ppc,              \* where the pipeline stands
    process_btn,      \* MainWindow.process_btn state: "normal" or "disabled"
    status_var,       \* MainWindow.status_var
    runs,             \* pipeline runs started so far
    run_session,      \* the session the current run created (0 = none yet)
    artifacts,        \* the files the current run has written, by session and kind
    crash_point,      \* where the pipeline stood when the process was killed ("none": alive)
    cancelled_runs,   \* the sessions whose run was cancelled at scene selection
    resumed,          \* _continue_processing calls made for the current run
    failed_stage,     \* the stage of the current run that failed ("none" = no stage)
    user,             \* what the detector finds in the master, what the user selects and groups
    all_detected_scenes, \* VideoArchiveApp.all_detected_scenes
    out,              \* the current run's clip attempts, clips, still requests and stills
    \* ---- SceneDetector export and import of scene data
    scene_data,       \* a list of scene dictionaries, as stored with a session
    scenes_imported,  \* what import_scene_data made of it
    scenes_exported,  \* what export_scene_data made of the imported scenes
    \* ---- ConfigManager presets
    presets,          \* ConfigManager.presets['presets'], in list order
    preset_call       \* the last preset call: operation, preset_id and what it returned

batch_vars == <<media_files, behaviour, parallel_images, max_workers, process_log, cancelled, bpc,
                counts, loc, idx, start_index, future, completed_q, nyielded,
                in_progress, peak_images, started, late_started, observed,
                started_at_observe, inflight_at_observe, vprog, progress_calls, summary>>

store_vars == <<processing_state, session_id, operation_log, file_registry, wpc, wseq, now,
               resumable>>

scene_vars == <<user, all_detected_scenes, out>>

pipe_vars == <<ppc, process_btn, status_var, runs, crash_point, artifacts, scene_vars, cancelled_runs, resumed, run_session, failed_stage>>

lib_vars == <<scene_data, scenes_imported, scenes_exported, presets, preset_call>>

vars == <<batch_vars, store_vars, pipe_vars, lib_vars>>

\* ================================================================== batch
FileIds == 1..NumFiles

IdxSeq == [i \in 1..NumFiles |-> i]

\* MediaFile.__init__: processing state of a freshly scanned file
NewMediaFile(t, e) ==
    [type |-> t, enabled |-> e, processed |-> FALSE, error_message |-> ""]

\* MediaFile.mark_processed
mark_processed(mf) == [mf EXCEPT !.processed = TRUE, !.error_message = ""]

\* MediaFile.mark_error
mark_error(mf, msg) == [mf EXCEPT !.processed = FALSE, !.error_message = msg]

\* process_all line 57: files_to_process = [f for f in media_files if f.enabled]
files_to_process == SelectSeq(IdxSeq, LAMBDA i : media_files[i].enabled)

\* a plausible slip: every enabled file is handed to the image pool
images_all == files_to_process

\* process_all line 72
images == SelectSeq(files_to_process, LAMBDA i : media_files[i].type = "image")

\* process_all line 73
videos == SelectSeq(files_to_process, LAMBDA i : media_files[i].type = "video")

total_files == Len(files_to_process)

SeqToSet(s) == {s[k] : k \in 1..Len(s)}

\* main_window_social.py lines 333-340 and 507-510: a MediaFile's sequence is its
\* 1-based place in the list
sequence(i) == i

\* Python's str() of a non-negative int, as a sequence of characters
RECURSIVE str(_)
str(n) ==
    LET digit == <<"0", "1", "2", "3", "4", "5", "6", "7", "8", "9">>[(n % 10) + 1]
    IN  IF n < 10 THEN <<digit>> ELSE str(n \div 10) \o <<digit>>

\* Python's f"{n:02d}": at least two digits, zero-padded
format_02d(n) == IF n < 10 THEN <<"0">> \o str(n) ELSE str(n)

\* str.replace(" ", "-")
replace_space(s) == [k \in 1..Len(s) |-> IF s[k] = " " THEN "-" ELSE s[k]]

\* a plausible slip: the file name carries no sequence number
generate_output_filename_no_sequence(seq, safe_project, template, ext) ==
    <<"-">> \o safe_project \o <<"_">> \o replace_space(template) \o <<"_", "0", "1">> \o ext

\* MediaFile.generate_output_filename with the default variant "01":
\* f"{self.sequence}-{safe_project}_{template_safe}_{variant}{ext}"
generate_output_filename(seq, safe_project, template, ext) ==
    str(seq) \o <<"-">> \o safe_project \o <<"_">> \o replace_space(template)
        \o <<"_", "0", "1">> \o ext

\* what MediaFile._sanitize_name can return: lower-case letters, digits, "_", "-"
SafeProjects == {<<"p">>, <<"1">>, <<"1", "-", "p">>, <<"p", "_", "1">>}

\* template ids of TemplateManager (template_manager.py lines 100-140)
TemplateIds == {<<"f", "u", "l", "l">>, <<"1", "6", "-", "9">>, <<"1", "-", "1", "-", "s">>}

\* lower-cased extensions of the scanned files
Extensions == {<<".", "j", "p", "g">>, <<".", "p", "n", "g">>}

\* ImageProcessor.batch_extract_stills lines 225-229: the file name of the still
\* taken at place index (0-based, 'idx' in the code) of the timestamps
still_filename(index, artwork_name, file_type, aspect_ratio) ==
    artwork_name \o <<"_">> \o file_type \o <<"_">> \o format_02d(index + 1) \o <<"_">>
        \o aspect_ratio \o <<".", "p", "n", "g">>

\* largest sequence number and still index tried for file names
MaxNumber == 11

\* aspect_ratio suffixes handed to batch_extract_stills
AspectSuffixes == {<<"1", "6", "x", "9">>, <<"1", "x", "1">>}

\* TemplateCompositor.process_file: the success flag it returns. A False from
\* _process_image/_process_video and an exception caught at line 72 both give False.
process_file_success(b) == b = "ok"

\* what a compositor call can do: succeed, return False, raise inside process_file
Behaviours == {"ok", "fail", "raise"}

\* TemplateCompositor.process_file lines 64-76: the mark it leaves on the MediaFile
process_file_mark(mf, b) ==
    IF b = "ok" THEN mark_processed(mf)
    ELSE IF b = "fail" THEN mark_error(mf, "Processing failed")
    ELSE mark_error(mf, "Error processing")

ZeroCounts == [processed |-> 0, failed |-> 0, skipped |-> 0]

NoSummary == [kind |-> "none", success |-> FALSE, processed |-> 0, failed |-> 0,
              skipped |-> 0, total |-> 0, cancelled |-> FALSE]

\* process_all lines 114-116 / 130-132
AddCounts(c, l) == [processed |-> c.processed + l.processed,
                    failed    |-> c.failed + l.failed,
                    skipped   |-> c.skipped + l.skipped]

\* the loops go on to the next item whatever the item's result was
NextIdxAbortOnFailure(i, ok, n) == IF ok THEN i + 1 ELSE n

\* for idx, item in enumerate(...): the index of the following iteration
NextIdx(i, ok, n) == i + 1

\* the pool starts a queued task only when one of its max_workers threads is free
WorkerFree == Cardinality({i \in FileIds : future[i] = "running"}) < max_workers

\* a shutdown that returns at once, leaving started tasks behind
PoolIdleNoWait == TRUE

\* shutdown(wait=True): no submitted task is queued or running any more
PoolIdle == \A i \in FileIds : future[i] \notin {"pending", "running"}

\* process_all reads self.cancelled and finds it set
Observe ==
    /\ observed' = TRUE
    /\ started_at_observe' = IF observed THEN started_at_observe ELSE started
    /\ inflight_at_observe' = IF observed THEN inflight_at_observe ELSE in_progress

\* a compositor call on file i begins
BeginCall(i) ==
    /\ in_progress' = in_progress \cup {i}
    /\ started' = started \cup {i}
    /\ late_started' = IF observed THEN late_started \cup {i} ELSE late_started
    /\ peak_images' =
         LET n == Cardinality({j \in in_progress \cup {i} : media_files[j].type = "image"})
         IN  IF n > peak_images THEN n ELSE peak_images

InitBatchWith(files) ==
    /\ media_files \in files
    /\ behaviour = [i \in FileIds |-> "unknown"]
    /\ parallel_images \in BOOLEAN
    /\ max_workers \in 1..MaxWorkers
    /\ cancelled = FALSE
    /\ bpc = "idle"
    /\ counts = ZeroCounts
    /\ loc = ZeroCounts
    /\ idx = 0
    /\ start_index = 0
    /\ future = [i \in FileIds |-> "none"]
    /\ completed_q = <<>>
    /\ nyielded = 0
    /\ in_progress = {}
    /\ peak_images = 0
    /\ started = {}
    /\ late_started = {}
    /\ observed = FALSE
    /\ started_at_observe = {}
    /\ inflight_at_observe = {}
    /\ vprog = FALSE
    /\ progress_calls = <<>>
    /\ summary = NoSummary
    /\ process_log = <<>>

\* any scanned folder of NumFiles files, each an image or a video, enabled or not
InitBatch ==
    InitBatchWith([FileIds -> {NewMediaFile(t, e) : t \in {"image", "video"},
                                                     e \in BOOLEAN}])

\* process_all lines 54-112: clear the flag, filter, split, choose the image helper
ProcessAllEnter ==
    /\ bpc = "idle"
    /\ cancelled' = FALSE
    /\ counts' = ZeroCounts
    /\ loc' = ZeroCounts
    /\ idx' = 0
    /\ start_index' = 0
    /\ IF files_to_process = <<>>
       THEN /\ bpc' = "returned"
            /\ summary' = [NoSummary EXCEPT !.kind = "no_files"]
       ELSE /\ summary' = summary
            /\ bpc' = IF images # <<>>
                      THEN IF parallel_images /\ max_workers > 1
                           THEN "submit" ELSE "img_seq"
                      ELSE "videos_check"
    /\ UNCHANGED <<media_files, behaviour, parallel_images, max_workers, process_log, future,
                   completed_q, nyielded, in_progress, peak_images, started,
                   late_started, observed,
                   started_at_observe, inflight_at_observe, vprog, progress_calls>>
    /\ UNCHANGED <<store_vars, lib_vars, pipe_vars>>

\* _process_images_parallel lines 169-179: every image is submitted to the pool
SubmitImages ==
    /\ bpc = "submit"
    /\ future' = [i \in FileIds |-> IF i \in SeqToSet(images) THEN "pending" ELSE future[i]]
    /\ bpc' = "as_completed"
    /\ UNCHANGED <<media_files, behaviour, parallel_images, max_workers, process_log, cancelled,
                   counts, loc, idx, start_index, completed_q, nyielded, in_progress,
                   peak_images, started, late_started, observed,
                   started_at_observe, inflight_at_observe, vprog,
                   progress_calls, summary>>
    /\ UNCHANGED <<store_vars, lib_vars, pipe_vars>>

\* a pool thread takes the oldest queued task and calls compositor.process_file
WorkerStart(i) ==
    /\ future[i] = "pending"
    /\ \A j \in FileIds : j < i => future[j] # "pending"
    /\ WorkerFree
    /\ future' = [future EXCEPT ![i] = "running"]
    /\ BeginCall(i)
    /\ UNCHANGED <<media_files, behaviour, parallel_images, max_workers, process_log, cancelled, bpc,
                   counts, loc, idx, start_index, completed_q, nyielded, observed,
                   started_at_observe, inflight_at_observe,
                   vprog, progress_calls, summary>>
    /\ UNCHANGED <<store_vars, lib_vars, pipe_vars>>

\* the pool thread's process_file call returns: the file is marked, the future is done
WorkerFinish(i) ==
    /\ future[i] = "running"
    /\ future' = [future EXCEPT ![i] = "finished"]
    /\ \E b \in Behaviours :
         /\ behaviour' = [behaviour EXCEPT ![i] = b]
         /\ media_files' = [media_files EXCEPT ![i] = process_file_mark(@, b)]
    /\ in_progress' = in_progress \ {i}
    /\ completed_q' = Append(completed_q, i)
    /\ UNCHANGED <<parallel_images, max_workers, process_log, cancelled, bpc, counts, loc,
                   idx, start_index, nyielded, peak_images, started, late_started,
                   observed,
                   started_at_observe, inflight_at_observe, vprog, progress_calls, summary>>
    /\ UNCHANGED <<store_vars, lib_vars, pipe_vars>>

\* _process_images_parallel lines 182-206: one iteration of the as_completed loop
AsCompletedNext ==
    /\ bpc = "as_completed"
    /\ completed_q # <<>>
    /\ completed_q' = Tail(completed_q)
    /\ IF cancelled
       THEN /\ Observe
            /\ loc' = [loc EXCEPT !.skipped = Len(images) - loc.processed - loc.failed]
            /\ bpc' = "pool_shutdown"
            /\ UNCHANGED <<nyielded, progress_calls>>
       ELSE /\ loc' = IF process_file_success(behaviour[Head(completed_q)])
                      THEN [loc EXCEPT !.processed = @ + 1]
                      ELSE [loc EXCEPT !.failed = @ + 1]
            /\ progress_calls' =
                 Append(progress_calls, start_index + loc'.processed + loc'.failed)
            /\ nyielded' = nyielded + 1
            /\ UNCHANGED <<observed, started_at_observe, inflight_at_observe, bpc>>
    /\ UNCHANGED <<media_files, behaviour, parallel_images, max_workers, process_log, cancelled,
                   counts, idx, start_index, future, in_progress, peak_images, started,
                   late_started, vprog, summary>>
    /\ UNCHANGED <<store_vars, lib_vars, pipe_vars>>

\* the as_completed iterator is exhausted: every future has been yielded
AsCompletedEnd ==
    /\ bpc = "as_completed"
    /\ nyielded = Len(images)
    /\ bpc' = "pool_shutdown"
    /\ UNCHANGED <<media_files, behaviour, parallel_images, max_workers, process_log, cancelled,
                   counts, loc, idx, start_index, future, completed_q, nyielded,
                   in_progress, peak_images, started, late_started, observed,
                   started_at_observe, inflight_at_observe, vprog,
                   progress_calls, summary>>
    /\ UNCHANGED <<store_vars, lib_vars, pipe_vars>>

\* leaving the with block: shutdown(wait=True) waits for every submitted task,
\* then the helper returns and process_all adds its counts (lines 114-116)
PoolShutdown ==
    /\ bpc = "pool_shutdown"
    /\ PoolIdle
    /\ counts' = AddCounts(counts, loc)
    /\ bpc' = "videos_check"
    /\ UNCHANGED <<media_files, behaviour, parallel_images, max_workers, process_log, cancelled, loc,
                   idx, start_index, future, completed_q, nyielded, in_progress,
                   peak_images, started, late_started, observed,
                   started_at_observe, inflight_at_observe, vprog,
                   progress_calls, summary>>
    /\ UNCHANGED <<store_vars, lib_vars, pipe_vars>>

\* the sequential helpers: which list the running helper walks
SeqItems == IF bpc \in {"img_seq", "img_seq_run"} THEN images ELSE videos

\* lines 225-228 / 271-274: the loop sees the flag set and breaks
SeqCancelled(pc, nextpc) ==
    /\ bpc = pc
    /\ idx < Len(SeqItems)
    /\ cancelled
    /\ Observe
    /\ counts' = AddCounts(counts, [loc EXCEPT !.skipped = Len(SeqItems) - idx])
    /\ loc' = [loc EXCEPT !.skipped = Len(SeqItems) - idx]
    /\ bpc' = nextpc
    /\ UNCHANGED <<media_files, behaviour, parallel_images, max_workers, process_log, cancelled, idx,
                   start_index, future, completed_q, nyielded, in_progress, peak_images,
                   started, late_started, vprog, progress_calls, summary>>
    /\ UNCHANGED <<store_vars, lib_vars, pipe_vars>>

\* lines 230-236 / 276-290: the flag is clear, process_file is called on the item
SeqStart(pc, runpc) ==
    /\ bpc = pc
    /\ idx < Len(SeqItems)
    /\ ~cancelled
    /\ BeginCall(SeqItems[idx + 1])
    /\ vprog' = FALSE
    /\ bpc' = runpc
    /\ UNCHANGED <<media_files, behaviour, parallel_images, max_workers, process_log, cancelled,
                   counts, loc, idx, start_index, future, completed_q, nyielded,
                   observed,
                   started_at_observe, inflight_at_observe, progress_calls, summary>>
    /\ UNCHANGED <<store_vars, lib_vars, pipe_vars>>

\* lines 238-252 / 292-306: process_file returned; count, report progress, go on
SeqFinish(runpc, pc) ==
    /\ bpc = runpc
    /\ \E b \in Behaviours :
       LET i == SeqItems[idx + 1] IN
       /\ behaviour' = [behaviour EXCEPT ![i] = b]
       /\ media_files' = [media_files EXCEPT ![i] = process_file_mark(@, b)]
       /\ in_progress' = in_progress \ {i}
       /\ loc' = IF process_file_success(b)
                 THEN [loc EXCEPT !.processed = @ + 1]
                 ELSE [loc EXCEPT !.failed = @ + 1]
       /\ progress_calls' = Append(progress_calls, start_index + idx + 1)
       /\ idx' = NextIdx(idx, process_file_success(b), Len(SeqItems))
    /\ bpc' = pc
    /\ UNCHANGED <<parallel_images, max_workers, process_log, cancelled, counts,
                   start_index, future, completed_q, nyielded, peak_images, started,
                   late_started, observed,
                   started_at_observe, inflight_at_observe, vprog, summary>>
    /\ UNCHANGED <<store_vars, lib_vars, pipe_vars>>

\* the for loop is exhausted: the helper returns, process_all adds its counts
SeqEnd(pc, nextpc) ==
    /\ bpc = pc
    /\ idx >= Len(SeqItems)
    /\ counts' = AddCounts(counts, loc)
    /\ bpc' = nextpc
    /\ UNCHANGED <<media_files, behaviour, parallel_images, max_workers, process_log, cancelled, loc,
                   idx, start_index, future, completed_q, nyielded, in_progress,
                   peak_images, started, late_started, observed,
                   started_at_observe, inflight_at_observe, vprog,
                   progress_calls, summary>>
    /\ UNCHANGED <<store_vars, lib_vars, pipe_vars>>

\* _process_images_sequential
ImgSeqCancelled == SeqCancelled("img_seq", "videos_check")
ImgSeqStart == SeqStart("img_seq", "img_seq_run")
ImgSeqFinish == SeqFinish("img_seq_run", "img_seq")
ImgSeqEnd == SeqEnd("img_seq", "videos_check")

\* process_all lines 119-127: videos run only when the flag is clear
VideosCheck ==
    /\ bpc = "videos_check"
    /\ IF videos # <<>> /\ ~cancelled
       THEN /\ bpc' = "vid_seq"
            /\ start_index' = counts.processed
            /\ loc' = ZeroCounts
            /\ idx' = 0
            /\ UNCHANGED <<observed, started_at_observe, inflight_at_observe>>
       ELSE /\ bpc' = "summary"
            /\ IF videos # <<>> /\ cancelled
               THEN Observe
               ELSE UNCHANGED <<observed, started_at_observe, inflight_at_observe>>
            /\ UNCHANGED <<start_index, loc, idx>>
    /\ UNCHANGED <<media_files, behaviour, parallel_images, max_workers, process_log, cancelled,
                   counts, future, completed_q, nyielded, in_progress, peak_images,
                   started, late_started, vprog, progress_calls, summary>>
    /\ UNCHANGED <<store_vars, lib_vars, pipe_vars>>

\* _process_videos_sequential
VidSeqCancelled == SeqCancelled("vid_seq", "summary")
VidSeqStart == SeqStart("vid_seq", "vid_seq_run")
VidSeqFinish == SeqFinish("vid_seq_run", "vid_seq")
VidSeqEnd == SeqEnd("vid_seq", "summary")

\* lines 278-282: the encoder reports progress through video_progress
VideoProgress ==
    /\ bpc = "vid_seq_run"
    /\ ~vprog
    /\ vprog' = TRUE
    /\ progress_calls' = Append(progress_calls, start_index + idx + 1)
    /\ UNCHANGED <<media_files, behaviour, parallel_images, max_workers, process_log, cancelled, bpc,
                   counts, loc, idx, start_index, future, completed_q, nyielded,
                   in_progress, peak_images, started, late_started, observed,
                   started_at_observe, inflight_at_observe, summary>>
    /\ UNCHANGED <<store_vars, lib_vars, pipe_vars>>

\* process_all line 136: 'success' reads the flag
BuildSummarySuccess ==
    /\ bpc = "summary"
    /\ summary' = [NoSummary EXCEPT !.success = (~cancelled /\ counts.failed = 0)]
    /\ bpc' = "summary_cancelled"
    /\ UNCHANGED <<media_files, behaviour, parallel_images, max_workers, process_log, cancelled,
                   counts, loc, idx, start_index, future, completed_q, nyielded,
                   in_progress, peak_images, started, late_started, observed,
                   started_at_observe, inflight_at_observe, vprog,
                   progress_calls>>
    /\ UNCHANGED <<store_vars, lib_vars, pipe_vars>>

\* _write_processing_log lines 359-366: the status written for one file
log_outcome(mf) ==
    IF mf.processed THEN "processed"
    ELSE IF mf.error_message # "" THEN "failed"
    ELSE "skipped"

\* _write_processing_log lines 349-368: one entry per enabled file of media_files
log_entries ==
    [k \in 1..Len(files_to_process) |->
        [file |-> files_to_process[k],
         outcome |-> log_outcome(media_files[files_to_process[k]])]]

\* process_all lines 137-151: the rest of the summary ('cancelled' reads the flag
\* again), the processing log, the return. _write_processing_log writes the
\* entries one by one inside a try block: an error on the way (the file cannot
\* be opened, a file name cannot be encoded as UTF-8) is logged and swallowed,
\* and the entries written so far are what the log holds.
BuildSummaryReturn ==
    /\ bpc = "summary_cancelled"
    /\ summary' = [kind |-> "summary", success |-> summary.success,
                   processed |-> counts.processed, failed |-> counts.failed,
                   skipped |-> counts.skipped, total |-> total_files,
                   cancelled |-> cancelled]
    /\ \E k \in 0..Len(log_entries) : process_log' = SubSeq(log_entries, 1, k)
    /\ bpc' = "returned"
    /\ UNCHANGED <<media_files, behaviour, parallel_images, max_workers, cancelled,
                   counts, loc, idx, start_index, future, completed_q, nyielded,
                   in_progress, peak_images, started, late_started, observed,
                   started_at_observe, inflight_at_observe, vprog,
                   progress_calls>>
    /\ UNCHANGED <<store_vars, lib_vars, pipe_vars>>

\* BatchProcessor.cancel, called from another thread at any moment
Cancel ==
    /\ ~cancelled
    /\ bpc # "returned"
    /\ cancelled' = TRUE
    /\ UNCHANGED <<media_files, behaviour, parallel_images, max_workers, process_log, bpc, counts,
                   loc, idx, start_index, future, completed_q, nyielded, in_progress,
                   peak_images, started, late_started, observed,
                   started_at_observe, inflight_at_observe, vprog, progress_calls,
                   summary>>
    /\ UNCHANGED <<store_vars, lib_vars, pipe_vars>>

NextBatch ==
    \/ ProcessAllEnter
    \/ SubmitImages
    \/ \E i \in FileIds : WorkerStart(i)
    \/ \E i \in FileIds : WorkerFinish(i)
    \/ AsCompletedNext
    \/ AsCompletedEnd
    \/ PoolShutdown
    \/ ImgSeqCancelled
    \/ ImgSeqStart
    \/ ImgSeqFinish
    \/ ImgSeqEnd
    \/ VideosCheck
    \/ VidSeqCancelled
    \/ VidSeqStart
    \/ VidSeqFinish
    \/ VidSeqEnd
    \/ VideoProgress
    \/ BuildSummarySuccess
    \/ BuildSummaryReturn
    \/ Cancel

\* ================================================================== store
\* bounds of the store model
\* rows the processing_state table may hold
MaxSessions == 2
\* largest total_operations a caller passes to create_session
MaxTotal == 2
\* update_progress calls modelled per session
MaxProgress == 3
\* worker threads calling log_operation
NumWorkers == 3

Workers == 1..NumWorkers

Statuses == {"initialized", "processing", "paused", "completed", "failed"}

\* create_session lines 190-208: the inserted row (column defaults from the schema)
NewSession(total) ==
    [total_operations |-> total, completed_operations |-> 0, current_operation |-> "",
     status |-> "initialized", error_message |-> "", updated_at |-> now]

\* a plausible slip: the UPDATE counts every recorded stage twice
update_progress_twice(rows, sid, operation) ==
    [rows EXCEPT ![sid].current_operation = operation,
                 ![sid].completed_operations = @ + 2,
                 ![sid].updated_at = now]

\* update_progress lines 228-234: the UPDATE statement; the trigger
\* update_processing_state_timestamp stamps the row
update_progress(rows, sid, operation) ==
    [rows EXCEPT ![sid].current_operation = operation,
                 ![sid].completed_operations = @ + 1,
                 ![sid].updated_at = now]

\* update_status lines 336-347: the UPDATE statement; the trigger
\* update_processing_state_timestamp stamps the row
update_status(rows, sid, status, error_message) ==
    [rows EXCEPT ![sid].status = status, ![sid].error_message = error_message,
                 ![sid].updated_at = now]

\* log_operation lines 260-265: SELECT COALESCE(MAX(sequence_number), 0) + 1
Max(S) == CHOOSE x \in S : \A y \in S : y <= x

next_sequence(log, sid) ==
    LET seqs == {log[k].sequence_number : k \in {j \in 1..Len(log) : log[j].session_id = sid}}
    IN  IF seqs = {} THEN 1 ELSE Max(seqs) + 1

InitStore ==
    /\ processing_state = <<>>
    /\ session_id = 0
    /\ operation_log = <<>>
    /\ wpc = [w \in Workers |-> "idle"]
    /\ wseq = [w \in Workers |-> 0]
    /\ now = 0
    /\ resumable = 0
    /\ file_registry = <<>>

\* StateManager.create_session
CreateSession(total) ==
    /\ Len(processing_state) < MaxSessions
    /\ processing_state' = Append(processing_state, NewSession(total))
    /\ session_id' = Len(processing_state) + 1
    /\ UNCHANGED <<operation_log, now, resumable, file_registry, lib_vars, wpc, wseq>>
    /\ UNCHANGED <<batch_vars, pipe_vars>>

\* StateManager.load_session: an unknown id raises ValueError and changes nothing
LoadSession(sid) ==
    /\ session_id' = IF sid \in 1..Len(processing_state) THEN sid ELSE session_id
    /\ UNCHANGED <<processing_state, operation_log, now, resumable, file_registry, lib_vars, wpc, wseq>>
    /\ UNCHANGED <<batch_vars, pipe_vars>>

\* StateManager.update_progress: without an active session it raises RuntimeError
UpdateProgress(operation) ==
    /\ IF session_id = 0
       THEN UNCHANGED processing_state
       ELSE /\ processing_state[session_id].completed_operations < MaxProgress
            /\ processing_state' = update_progress(processing_state, session_id, operation)
    /\ UNCHANGED <<session_id, operation_log, now, resumable, file_registry, lib_vars, wpc, wseq>>
    /\ UNCHANGED <<batch_vars, pipe_vars>>

\* StateManager.update_status: without an active session it raises RuntimeError
UpdateStatus(status, error_message) ==
    /\ IF session_id = 0
       THEN UNCHANGED processing_state
       ELSE processing_state' =
                update_status(processing_state, session_id, status, error_message)
    /\ UNCHANGED <<session_id, operation_log, now, resumable, file_registry, lib_vars, wpc, wseq>>
    /\ UNCHANGED <<batch_vars, pipe_vars>>

\* log_operation lines 254-265: the session check and the SELECT of the next number
LogSelect(w) ==
    /\ wpc[w] = "idle"
    /\ IF session_id = 0
       THEN /\ wpc' = [wpc EXCEPT ![w] = "raised"]
            /\ UNCHANGED wseq
       ELSE /\ wseq' = [wseq EXCEPT ![w] = next_sequence(operation_log, session_id)]
            /\ wpc' = [wpc EXCEPT ![w] = "selected"]
    /\ UNCHANGED <<processing_state, session_id, operation_log, now, resumable, file_registry, lib_vars>>
    /\ UNCHANGED <<batch_vars, pipe_vars>>

\* log_operation lines 267-284: the INSERT with the number read before, the commit
LogInsert(w) ==
    /\ wpc[w] = "selected"
    /\ operation_log' = Append(operation_log,
           [session_id |-> session_id, sequence_number |-> wseq[w], worker |-> w])
    /\ wpc' = [wpc EXCEPT ![w] = "done"]
    /\ UNCHANGED <<processing_state, session_id, wseq, now, resumable, file_registry, lib_vars>>
    /\ UNCHANGED <<batch_vars, pipe_vars>>

\* _init_database line 34: sqlite3.connect with check_same_thread left at its
\* default, so the connection serves the thread that made it and refuses every
\* other thread with ProgrammingError. A worker is served only through a
\* StateManager of its own.
same_thread(own_connection) == own_connection

\* StateManager.update_progress called by worker thread w, through the
\* application's StateManager or through one the worker made itself with the
\* same session loaded. The UPDATE is one statement, committed at once.
WorkerUpdateProgress(w, own_connection) ==
    /\ wpc[w] = "idle"
    /\ IF session_id = 0
       THEN /\ wpc' = [wpc EXCEPT ![w] = "no_session"]
            /\ UNCHANGED processing_state
       ELSE IF same_thread(own_connection)
       THEN /\ processing_state' = update_progress(processing_state, session_id, "worker")
            /\ wpc' = [wpc EXCEPT ![w] = "done"]
       ELSE /\ wpc' = [wpc EXCEPT ![w] = "refused"]
            /\ UNCHANGED processing_state
    /\ UNCHANGED <<session_id, operation_log, now, resumable, file_registry, lib_vars, wseq>>
    /\ UNCHANGED <<batch_vars, pipe_vars>>

NextProgress ==
    \/ \E total \in 1..MaxTotal : CreateSession(total)
    \/ \E w \in Workers, own_connection \in BOOLEAN : WorkerUpdateProgress(w, own_connection)

\* rows of the file_registry table modelled
MaxRegistered == 1

\* register_file lines 305-320: the INSERT statement
register_file(registry, sid, file_path) ==
    Append(registry, [session_id |-> sid, file_path |-> file_path])

\* a plausible slip: register_file without its session check
RegisterFileUnchecked(file_path) ==
    /\ Len(file_registry) < MaxRegistered
    /\ file_registry' = register_file(file_registry, session_id, file_path)
    /\ UNCHANGED <<processing_state, session_id, operation_log, now, resumable, lib_vars, wpc, wseq>>
    /\ UNCHANGED <<batch_vars, pipe_vars>>

\* StateManager.register_file: without an active session it raises RuntimeError
RegisterFile(file_path) ==
    /\ IF session_id = 0
       THEN UNCHANGED file_registry
       ELSE /\ Len(file_registry) < MaxRegistered
            /\ file_registry' = register_file(file_registry, session_id, file_path)
    /\ UNCHANGED <<processing_state, session_id, operation_log, now, resumable, lib_vars, wpc, wseq>>
    /\ UNCHANGED <<batch_vars, pipe_vars>>

\* what the tables can hold when a StateManager is made: nothing, or the session
\* and the log row an earlier process wrote
ExistingDatabases ==
    {[rows |-> <<>>, log |-> <<>>],
     [rows |-> <<[total_operations |-> 9, completed_operations |-> 1,
                  current_operation |-> "copy_master", status |-> "processing",
                  error_message |-> "", updated_at |-> 0]>>,
      log |-> <<[session_id |-> 1, sequence_number |-> 1, worker |-> 1]>>]}

\* StateManager.__init__ lines 28-31 over a database of ExistingDatabases: the
\* tables are opened as they are and session_id is None
InitStoreOver(databases) ==
    /\ \E db \in databases :
         /\ processing_state = db.rows
         /\ operation_log = db.log
    /\ session_id = 0
    /\ wpc = [w \in Workers |-> "idle"]
    /\ wseq = [w \in Workers |-> 0]
    /\ now = 0
    /\ resumable = 0
    /\ file_registry = <<>>

\* every StateManager call that needs an active session, made in any order,
\* with and without an active session; caller 1 calls log_operation once and
\* caller 2 update_progress once, and each notes what it got
NextNoSession ==
    \/ CreateSession(1)
    \/ \E sid \in 1..(MaxSessions + 1) : LoadSession(sid)
    \/ \E own_connection \in BOOLEAN : WorkerUpdateProgress(2, own_connection)
    \/ UpdateStatus("failed", "error")
    \/ RegisterFile("master")
    \/ LogSelect(1)
    \/ LogInsert(1)

\* days of database time modelled
MaxClock == 8

\* get_resumable_session line 363: datetime('now', '-7 days')
ResumeWindow == 7

\* a WHERE clause that looks at the status only
resumable_rows_any_age(rows, t) ==
    {r \in 1..Len(rows) : rows[r].status \in {"processing", "paused"}}

\* a query without its ORDER BY: any row that passed the WHERE clause
any_rows(rows, S) == S

\* the WHERE clause of get_resumable_session (lines 362-363)
resumable_rows(rows, t) ==
    {r \in 1..Len(rows) : /\ rows[r].status \in {"processing", "paused"}
                          /\ rows[r].updated_at > t - ResumeWindow}

\* ORDER BY updated_at DESC LIMIT 1 (lines 364-365): the rows the query may
\* return; rows with the same updated_at come in no defined order
latest_rows(rows, S) ==
    {r \in S : \A q \in S : rows[q].updated_at <= rows[r].updated_at}

\* StateManager.get_resumable_session
GetResumableSession ==
    /\ LET S == latest_rows(processing_state, resumable_rows(processing_state, now))
       IN  IF S = {} THEN resumable' = 0 ELSE resumable' \in S
    /\ UNCHANGED <<processing_state, session_id, operation_log, file_registry, wpc, wseq, now>>
    /\ UNCHANGED <<batch_vars, pipe_vars, lib_vars>>

\* a day of database time passes
Tick ==
    /\ now < MaxClock
    /\ now' = now + 1
    /\ UNCHANGED <<processing_state, session_id, operation_log, wpc, wseq, resumable, file_registry, lib_vars>>
    /\ UNCHANGED <<batch_vars, pipe_vars>>

Operations == {"copy_master", "optimize_master", "scene_detection", "generate_clips",
               "extract_stills_hq", "compress_stills"}

NextStore ==
    \/ \E total \in 1..MaxTotal : CreateSession(total)
    \/ \E sid \in 1..(MaxSessions + 1) : LoadSession(sid)
    \/ \E op \in {"copy_master", "scene_detection"} : UpdateProgress(op)
    \/ \E st \in Statuses, err \in {"", "error"} : UpdateStatus(st, err)
    \/ RegisterFile("master")

NextResume ==
    \/ CreateSession(1)
    \/ \E sid \in 1..MaxSessions : LoadSession(sid)
    \/ \E st \in Statuses : UpdateStatus(st, "")
    \/ Tick
    \/ GetResumableSession

NextLog ==
    \/ \E total \in 1..MaxTotal : CreateSession(total)
    \/ \E w \in Workers : LogSelect(w)
    \/ \E w \in Workers : LogInsert(w)

\* =============================================================== pipeline
\* pipeline runs started from the main window
MaxRuns == 2

\* process_video line 153: total_operations of a phase-2 session
TotalOperations == 9

\* VideoProcessor.optimize_master_video lines 171-195. run_command returns the pair
\* (success, error_message); reading .returncode of it raises AttributeError, which
\* the except clause turns into False, whatever the encoder did.
optimize_master_video(encoder) == FALSE

\* _reset_gui
ResetGui ==
    /\ process_btn' = "normal"
    /\ status_var' = "Ready"

\* the except clauses of process_video (238-243) and _continue_processing (440-447)
HandleError(stage, message) ==
    /\ processing_state' =
         IF session_id # 0
         THEN update_status(processing_state, session_id, "failed", message)
         ELSE processing_state
    /\ failed_stage' = stage
    /\ ResetGui
    /\ ppc' = "ready"
    /\ UNCHANGED <<session_id, operation_log, now, resumable, file_registry, lib_vars, wpc, wseq, runs, crash_point, artifacts, scene_vars, cancelled_runs, resumed, run_session>>
    /\ UNCHANGED batch_vars

\* a stage ended well: progress is recorded when the stage records any, then the next stage
StageDoneWith(operation, nextpc) ==
    /\ processing_state' =
         IF operation = "" THEN processing_state
         ELSE update_progress(processing_state, session_id, operation)
    /\ ppc' = nextpc
    /\ UNCHANGED <<session_id, operation_log, now, resumable, file_registry, lib_vars, wpc, wseq, process_btn,
                   status_var, runs, crash_point, cancelled_runs, resumed, run_session, failed_stage>>
    /\ UNCHANGED batch_vars

\* a stage that writes no file and leaves the scene data alone ended well
StageDone(operation, nextpc) ==
    /\ StageDoneWith(operation, nextpc)
    /\ UNCHANGED <<scene_vars, artifacts>>

\* the timeout, in seconds, each caller passes to FFmpegWrapper.run_command; 0
\* stands for none (the parameter's default, None). video_processor.py:184,
\* scene_detector.py:148, video_clip_generator.py:101 and 189,
\* image_processor.py:238, template_compositor.py:314-317
run_command_timeout(caller) ==
    CASE caller = "optimize_master_video" -> 3600
      [] caller = "generate_thumbnails" -> 30
      [] caller = "extract_scene_clip" -> 600
      [] caller = "concatenate_scenes" -> 600
      [] caller = "extract_frame" -> 60
      [] caller = "_process_video" -> 0

\* FFmpegWrapper.run_command lines 316-395: an ffmpeg that ran to the end with
\* exit code 0 has written its output file, whatever the caller then makes of
\* the value run_command returns
ffmpeg_wrote(ffmpeg) == ffmpeg = "ok"

\* the current run's files after it wrote files of the kinds 'kinds'
written(kinds) == artifacts \cup {[session_id |-> run_session, kind |-> k] : k \in kinds}

\* ---- scenes, selection, clips and stills
\* most scenes the detector reports
MaxScenes == 3

\* most groups the user builds in the selection window
MaxGroups == 1

\* where the cuts of the master lie, in seconds; the master ends at the last one used
CutTimes == <<0, 5, 12, 20, 29, 39>>

\* Scene (scene_detector.py 13-22), times in seconds
NewScene(n, start, end) ==
    [scene_number |-> n, start_time |-> start, end_time |-> end, duration |-> end - start]

\* a conversion that numbers the scenes from 0
detect_scenes_from_zero(n) == [k \in 1..n |-> NewScene(k - 1, CutTimes[k], CutTimes[k + 1])]

\* SceneDetector.detect_scenes lines 73-84: scenes numbered from 1 in detector order
detect_scenes(n) == [k \in 1..n |-> NewScene(k, CutTimes[k], CutTimes[k + 1])]

\* info['duration'] of validate_master_video for a master without a cut
info_duration == CutTimes[MaxScenes + 1]

\* a pipeline that takes the detector's list as it comes
scenes_as_detected(n) == detect_scenes(n)

\* process_video lines 199-210: without a detected scene, one scene for the whole video
scenes_or_single(n) ==
    IF detect_scenes(n) = <<>>
    THEN <<NewScene(1, 0, info_duration)>>
    ELSE detect_scenes(n)

\* an export that leaves out the ticked scenes that are in a group
selected_scenes_ungrouped ==
    SelectSeq(all_detected_scenes,
              LAMBDA sc : /\ sc.scene_number \in user.selected
                          /\ \A g \in 1..Len(user.groups) : sc.scene_number \notin user.groups[g])

\* SceneSelectionWindow._export lines 347-351: the scenes whose box is ticked
selected_scenes == SelectSeq(all_detected_scenes, LAMBDA sc : sc.scene_number \in user.selected)

\* SceneSelectionWindow._export lines 362-370: each group as its scenes, in scene order
grouped_scenes ==
    [g \in 1..Len(user.groups) |->
        SelectSeq(all_detected_scenes, LAMBDA sc : sc.scene_number \in user.groups[g])]

\* VideoClipGenerator.extract_scene_clip lines 23-114. run_command returns the pair
\* (success, error_message); reading .returncode of it raises AttributeError, which
\* the except clause turns into False, whatever ffmpeg did.
extract_scene_clip(ffmpeg) == FALSE

\* VideoClipGenerator.concatenate_scenes lines 117-206: a single scene is extracted
\* directly; otherwise the first segment that fails ends the attempt, and the
\* concat command's result is read through .returncode as well
concatenate_scenes(scenes, ffmpeg) ==
    IF Len(scenes) = 1 THEN extract_scene_clip(ffmpeg)
    ELSE IF \E k \in 1..Len(scenes) : ~extract_scene_clip(ffmpeg) THEN FALSE
    ELSE FALSE

\* ImageProcessor.batch_extract_stills.extract_frame lines 225-245: .returncode of
\* the pair raises inside the worker; the exception is logged and no path is kept
extract_frame(ffmpeg) == FALSE

RECURSIVE Sum(_)
Sum(s) == IF s = <<>> THEN 0 ELSE Head(s) + Sum(Tail(s))

\* _continue_processing lines 306-338 with generate_clips_from_scenes: one
\* extract_scene_clip call per selected scene, one concatenate_scenes call per group
clip_attempts == [k \in 1..Len(selected_scenes) |-> selected_scenes[k].scene_number]

group_attempts ==
    [g \in 1..Len(grouped_scenes) |->
        [k \in 1..Len(grouped_scenes[g]) |-> grouped_scenes[g][k].scene_number]]

\* the clips that were created: clip_files of _continue_processing
clip_files(ffmpeg) ==
    [k \in 1..Len(SelectSeq(selected_scenes, LAMBDA sc : extract_scene_clip(ffmpeg))) |->
        [kind |-> "individual",
         duration |-> SelectSeq(selected_scenes, LAMBDA sc : extract_scene_clip(ffmpeg))[k].duration]]
    \o
    [k \in 1..Len(SelectSeq(grouped_scenes, LAMBDA g : concatenate_scenes(g, ffmpeg))) |->
        [kind |-> "group",
         duration |-> Sum([j \in 1..Len(SelectSeq(grouped_scenes, LAMBDA g : concatenate_scenes(g, ffmpeg))[k]) |->
                             SelectSeq(grouped_scenes, LAMBDA g : concatenate_scenes(g, ffmpeg))[k][j].duration])]]

\* stills asked for the scenes selected for clips only
still_requests_selected ==
    [k \in 1..Len(selected_scenes) |->
        [sequence |-> k, scene_number |-> selected_scenes[k].scene_number,
         twice_timestamp |-> 2 * selected_scenes[k].start_time + selected_scenes[k].duration]]

\* _continue_processing lines 350-353 and batch_extract_stills lines 248-252: one
\* extract_frame task per scene of all_detected_scenes, at the scene's midpoint
\* (kept doubled, the midpoints being half seconds)
still_requests ==
    [k \in 1..Len(all_detected_scenes) |->
        [sequence |-> k, scene_number |-> all_detected_scenes[k].scene_number,
         twice_timestamp |-> 2 * all_detected_scenes[k].start_time
                                + all_detected_scenes[k].duration]]

\* batch_extract_stills lines 254-262: the stills whose task returned a path
hq_files(ffmpeg) == SelectSeq(still_requests, LAMBDA r : extract_frame(ffmpeg))

NoOutput == [clip_attempts |-> <<>>, group_attempts |-> <<>>, clip_files |-> <<>>,
             still_requests |-> <<>>, hq_files |-> <<>>]

\* the groups the selection window lets the user build: two scenes or more each
GroupsOver(n) == {g \in SUBSET (1..n) : Cardinality(g) >= 2}

RECURSIVE SeqsUpTo(_, _)
SeqsUpTo(S, n) ==
    IF n = 0 THEN {<<>>}
    ELSE SeqsUpTo(S, n - 1) \cup {Append(q, x) : q \in SeqsUpTo(S, n - 1), x \in S}

\* every master and every use of the selection window within the bounds
UserInputs ==
    UNION {{[detected |-> n, selected |-> sel, groups |-> gs] :
               sel \in SUBSET (1..Len(scenes_or_single(n))),
               gs \in SeqsUpTo(GroupsOver(Len(scenes_or_single(n))), MaxGroups)} :
           n \in 0..MaxScenes}

\* a master with cuts at 5 s and 12 s, ending at 20 s; scene 1 ticked, scenes 2 and 3 grouped
ScenarioInput == [detected |-> 3, selected |-> {1}, groups |-> <<{2, 3}>>]

\* the main window ready for a run, r earlier runs having ended in the except
\* clause of process_video before they made a session (r = 0: a fresh start)
InitPipeFrom(inputs, r) ==
    /\ ppc = "ready"
    /\ process_btn = "normal"
    /\ status_var = "Ready"
    /\ runs = r
    /\ run_session = 0
    /\ cancelled_runs = {}
    /\ resumed = 0
    /\ failed_stage = IF r = 0 THEN "none" ELSE "setup"
    /\ user \in inputs
    /\ all_detected_scenes = <<>>
    /\ out = NoOutput
    /\ artifacts = {}
    /\ crash_point = "none"

InitPipeWith(inputs) == InitPipeFrom(inputs, 0)

InitPipe == InitPipeWith({ScenarioInput})

\* MainWindow._start_processing lines 395-399, process_video lines 107-122
StartProcessing ==
    /\ ppc = "ready"
    /\ process_btn = "normal"
    /\ runs < MaxRuns
    /\ runs' = runs + 1
    /\ resumed' = 0
    /\ out' = NoOutput
    /\ artifacts' = {}
    /\ UNCHANGED <<cancelled_runs, user, all_detected_scenes, crash_point>>
    /\ process_btn' = "disabled"
    /\ status_var' = "Processing..."
    /\ run_session' = 0
    /\ failed_stage' = "none"
    /\ ppc' = "validate"
    /\ UNCHANGED <<store_vars, lib_vars, batch_vars>>

\* process_video lines 126-134: an invalid master shows an error and returns
Validate ==
    /\ ppc = "validate"
    /\ \E is_valid \in BOOLEAN :
         /\ ppc' = IF is_valid THEN "setup" ELSE "returned"
         /\ failed_stage' = IF is_valid THEN failed_stage ELSE "validate"
    /\ UNCHANGED <<store_vars, lib_vars, batch_vars, process_btn, status_var, runs, crash_point, artifacts, scene_vars, cancelled_runs, resumed, run_session>>

\* process_video lines 137-144: create_output_structure (mkdir may raise)
CreateOutputStructure ==
    /\ ppc = "setup"
    /\ \/ StageDone("", "create_session")
       \/ HandleError("setup", "mkdir failed")

\* process_video lines 147-161: create_session(total_operations=9), update_status
PipelineCreateSession ==
    /\ ppc = "create_session"
    /\ Len(processing_state) < MaxSessions
    /\ processing_state' =
         update_status(Append(processing_state, NewSession(TotalOperations)),
                       Len(processing_state) + 1, "processing", "")
    /\ session_id' = Len(processing_state) + 1
    /\ run_session' = Len(processing_state) + 1
    /\ ppc' = "copy_master"
    /\ UNCHANGED <<operation_log, now, resumable, file_registry, lib_vars, wpc, wseq, process_btn, status_var, runs, crash_point, artifacts, scene_vars, cancelled_runs, resumed, failed_stage>>
    /\ UNCHANGED batch_vars

\* process_video lines 164-169
CopyMaster ==
    /\ ppc = "copy_master"
    /\ \E copied \in BOOLEAN :
         IF copied
         THEN /\ StageDoneWith("copy_master", "optimize_master")
              /\ artifacts' = written({"master"})
              /\ UNCHANGED scene_vars
         ELSE HandleError("copy_master", "Failed to copy master")

\* process_video lines 172-187: a failed optimization is logged and the run goes on
OptimizeMaster ==
    /\ ppc = "optimize_master"
    /\ \E encoder \in {"ok", "nonzero", "timeout"} :
         /\ artifacts' = IF ffmpeg_wrote(encoder) THEN written({"optimized_master"})
                         ELSE artifacts
         /\ IF optimize_master_video(encoder)
            THEN /\ StageDoneWith("optimize_master", "detect_scenes")
                 /\ UNCHANGED scene_vars
            ELSE /\ failed_stage' = "optimize_master"
                 /\ ppc' = "detect_scenes"
                 /\ UNCHANGED <<store_vars, lib_vars, batch_vars, process_btn, status_var, runs, crash_point, scene_vars, cancelled_runs, resumed, run_session>>

\* process_video lines 193-212: detect_scenes re-raises what the detector raises
DetectScenes ==
    /\ ppc = "detect_scenes"
    /\ \/ StageDone("", "thumbnails")
       \/ HandleError("detect_scenes", "detector error")

\* a pipeline that goes on to the clips without asking
AfterThumbnailsNoWait == "generate_clips"

\* process_video lines 234-235: the selection window is opened and process_video ends
AfterThumbnails == "await_selection"

\* process_video lines 215-236: thumbnails, progress, the selection window opens
\* in the state 'window'
GenerateThumbnailsWith(window) ==
    /\ ppc = "thumbnails"
    /\ StageDoneWith("scene_detection", AfterThumbnails)
    /\ all_detected_scenes' = scenes_or_single(user.detected)
    /\ user' = window
    /\ UNCHANGED <<out, artifacts>>

\* the window taken in the state the user exports or cancels it in
GenerateThumbnails == GenerateThumbnailsWith(user)

\* SceneSelectionWindow.__init__ lines 38-39 and _populate_scenes line 191: every
\* box ticked, no group
NewWindow(n) ==
    [detected |-> n,
     selected |-> {scenes_or_single(n)[k].scene_number : k \in 1..Len(scenes_or_single(n))},
     groups |-> <<>>]

\* the window taken as it opens, the user acting on it afterwards
ShowSceneSelection == GenerateThumbnailsWith(NewWindow(user.detected))

\* the user ticks or unticks the box of one scene
ToggleScene(n) ==
    /\ ppc = "await_selection"
    /\ n \in {all_detected_scenes[k].scene_number : k \in 1..Len(all_detected_scenes)}
    /\ user' = [user EXCEPT !.selected = IF n \in @ THEN @ \ {n} ELSE @ \cup {n}]
    /\ UNCHANGED <<all_detected_scenes, out>>
    /\ UNCHANGED <<store_vars, lib_vars, batch_vars, ppc, process_btn, status_var, runs, crash_point, artifacts, cancelled_runs,
                   resumed, run_session, failed_stage>>

\* a window that makes a group of whatever is ticked
group_accepted_any(selected) == TRUE

\* _add_to_group line 274: fewer than 2 ticked scenes get a warning and nothing else
group_accepted(selected) == Cardinality(selected) >= 2

\* SceneSelectionWindow._add_to_group: the ticked scenes become a new group and
\* every box is unticked
AddToGroup ==
    /\ ppc = "await_selection"
    /\ IF group_accepted(user.selected)
       THEN /\ Len(user.groups) < MaxGroups
            /\ user' = [user EXCEPT !.groups = Append(@, user.selected), !.selected = {}]
       ELSE UNCHANGED user
    /\ UNCHANGED <<all_detected_scenes, out>>
    /\ UNCHANGED <<store_vars, lib_vars, batch_vars, ppc, process_btn, status_var, runs, crash_point, artifacts, cancelled_runs,
                   resumed, run_session, failed_stage>>

\* SceneSelectionWindow._remove_group
RemoveGroup(group_index) ==
    /\ ppc = "await_selection"
    /\ group_index \in 1..Len(user.groups)
    /\ user' = [user EXCEPT !.groups = SubSeq(@, 1, group_index - 1)
                                          \o SubSeq(@, group_index + 1, Len(@))]
    /\ UNCHANGED <<all_detected_scenes, out>>
    /\ UNCHANGED <<store_vars, lib_vars, batch_vars, ppc, process_btn, status_var, runs, crash_point, artifacts, cancelled_runs,
                   resumed, run_session, failed_stage>>

\* SceneSelectionWindow._export -> on_scenes_selected -> _continue_processing
SelectionExport ==
    /\ ppc = "await_selection"
    /\ selected_scenes # <<>> \/ grouped_scenes # <<>>
    /\ ppc' = "generate_clips"
    /\ resumed' = resumed + 1
    /\ UNCHANGED <<store_vars, lib_vars, batch_vars, process_btn, status_var, runs, crash_point, artifacts, scene_vars, cancelled_runs,
                   run_session, failed_stage>>

\* SceneSelectionWindow._cancel -> on_scenes_selected(None, None) -> _reset_gui
SelectionCancel ==
    /\ ppc = "await_selection"
    /\ ResetGui
    /\ ppc' = "ready"
    /\ cancelled_runs' = cancelled_runs \cup {run_session}
    /\ UNCHANGED resumed
    /\ UNCHANGED <<store_vars, lib_vars, batch_vars, runs, crash_point, artifacts, scene_vars, run_session, failed_stage>>

\* the selection window is closed through the window manager: Toplevel's default
\* handler destroys it and on_complete is never called
SelectionWindowClosed ==
    /\ ppc = "await_selection"
    /\ ppc' = "abandoned"
    /\ UNCHANGED <<store_vars, lib_vars, batch_vars, process_btn, status_var, runs, crash_point, artifacts, scene_vars, cancelled_runs,
                   resumed, run_session, failed_stage>>

\* a pipeline that compresses before any still was extracted
AfterClipsSkipStills == "compress_stills"

\* _continue_processing lines 341-345: the stills follow the clips
AfterClips == "extract_stills"

\* _continue_processing lines 294-341
GenerateClips ==
    /\ ppc = "generate_clips"
    /\ \/ \E ffmpeg \in {"ok", "nonzero", "timeout"} :
            /\ StageDoneWith("generate_clips", AfterClips)
            /\ out' = [out EXCEPT !.clip_attempts = clip_attempts,
                                  !.group_attempts = group_attempts,
                                  !.clip_files = clip_files(ffmpeg)]
            /\ artifacts' = IF ffmpeg_wrote(ffmpeg) /\ selected_scenes # <<>>
                            THEN written({"clip"}) ELSE artifacts
            /\ UNCHANGED <<user, all_detected_scenes>>
       \/ HandleError("generate_clips", "mkdir failed")

\* _continue_processing lines 343-371
ExtractStills ==
    /\ ppc = "extract_stills"
    /\ \/ \E ffmpeg \in {"ok", "nonzero", "timeout"} :
            /\ StageDoneWith("extract_stills_hq", "compress_stills")
            /\ out' = [out EXCEPT !.still_requests = still_requests,
                                  !.hq_files = hq_files(ffmpeg)]
            /\ artifacts' = IF ffmpeg_wrote(ffmpeg) THEN written({"still"}) ELSE artifacts
            /\ UNCHANGED <<user, all_detected_scenes>>
       \/ HandleError("extract_stills", "mkdir failed")

\* _continue_processing lines 373-390
CompressStills ==
    /\ ppc = "compress_stills"
    /\ \/ StageDone("compress_stills", "finalize")
       \/ HandleError("compress_stills", "mkdir failed")

\* _continue_processing lines 393-394: the session is marked completed
Finalize ==
    /\ ppc = "finalize"
    /\ processing_state' = update_status(processing_state, session_id, "completed", "")
    /\ ppc' = "after_completed"
    /\ UNCHANGED <<session_id, operation_log, now, resumable, file_registry, lib_vars, wpc, wseq, process_btn, status_var, runs, crash_point, artifacts, scene_vars, cancelled_runs, resumed,
                   run_session, failed_stage>>
    /\ UNCHANGED batch_vars

\* _continue_processing lines 396-447: temp cleanup, the success dialog and the
\* auto-open of the folder run inside the same try block; rmtree or the launcher
\* (xdg-open, open) may raise, and then the except clause runs
AfterCompleted ==
    /\ ppc = "after_completed"
    /\ \/ /\ ResetGui
          /\ ppc' = "ready"
          /\ UNCHANGED <<store_vars, lib_vars, batch_vars, runs, crash_point, artifacts, scene_vars, cancelled_runs, resumed, run_session, failed_stage>>
       \/ HandleError("after_completed", "launcher not found")

NextPipeline ==
    \/ StartProcessing
    \/ Validate
    \/ CreateOutputStructure
    \/ PipelineCreateSession
    \/ CopyMaster
    \/ OptimizeMaster
    \/ DetectScenes
    \/ GenerateThumbnails
    \/ SelectionExport
    \/ SelectionCancel
    \/ SelectionWindowClosed
    \/ GenerateClips
    \/ ExtractStills
    \/ CompressStills
    \/ Finalize
    \/ AfterCompleted

\* the points between two stages of a run: the stage named is the next to start
BetweenStages == {"copy_master", "optimize_master", "detect_scenes", "thumbnails",
                  "await_selection", "generate_clips", "extract_stills", "compress_stills",
                  "finalize"}

\* the process is killed between two stages: nothing runs any more, the except
\* clauses included, and the database keeps what was committed
Crash ==
    /\ ppc \in BetweenStages
    /\ crash_point' = ppc
    /\ ppc' = "crashed"
    /\ UNCHANGED <<store_vars, lib_vars, batch_vars, process_btn, status_var, runs, artifacts,
                   scene_vars, cancelled_runs, resumed, run_session, failed_stage>>

NextCrash ==
    \/ StartProcessing
    \/ Validate
    \/ CreateOutputStructure
    \/ PipelineCreateSession
    \/ CopyMaster
    \/ OptimizeMaster
    \/ DetectScenes
    \/ GenerateThumbnails
    \/ SelectionExport
    \/ SelectionCancel
    \/ SelectionWindowClosed
    \/ GenerateClips
    \/ ExtractStills
    \/ CompressStills
    \/ Finalize
    \/ AfterCompleted
    \/ Crash

NextSelect ==
    \/ StartProcessing
    \/ Validate
    \/ CreateOutputStructure
    \/ PipelineCreateSession
    \/ CopyMaster
    \/ OptimizeMaster
    \/ DetectScenes
    \/ ShowSceneSelection
    \/ \E n \in 1..MaxScenes : ToggleScene(n)
    \/ AddToGroup
    \/ \E group_index \in 1..MaxGroups : RemoveGroup(group_index)
    \/ SelectionExport
    \/ SelectionCancel
    \/ SelectionWindowClosed
    \/ GenerateClips
    \/ ExtractStills
    \/ CompressStills
    \/ Finalize
    \/ AfterCompleted

\* ============================================================= scene data
\* longest list of scene dictionaries imported
MaxSceneData == 2

\* Scene (scene_detector.py 13-22) with every field; frames at 10 frames a second
FullScene(n, start, end, thumbnail_path) ==
    [scene_number |-> n, start_frame |-> 10 * start, end_frame |-> 10 * end,
     start_time |-> start, end_time |-> end, duration |-> end - start,
     thumbnail_path |-> thumbnail_path]

\* the keys import_scene_data reads with s[...]: a dictionary without one of them
\* raises KeyError
RequiredKeys == {"scene_number", "start_frame", "end_frame", "start_time", "end_time",
                 "duration"}

\* a dictionary without the keys in 'keys'
WithoutKeys(d, keys) == [k \in (DOMAIN d) \ keys |-> d[k]]

\* an export that leaves the thumbnail out
export_scene_data_no_thumbnail(scenes) ==
    [k \in 1..Len(scenes) |-> WithoutKeys(scenes[k], {"thumbnail_path"})]

\* SceneDetector.export_scene_data lines 226-237: a dictionary of the seven fields
\* per scene, in list order
export_scene_data(scenes) ==
    [k \in 1..Len(scenes) |->
        [scene_number |-> scenes[k].scene_number,
         start_frame |-> scenes[k].start_frame,
         end_frame |-> scenes[k].end_frame,
         start_time |-> scenes[k].start_time,
         end_time |-> scenes[k].end_time,
         duration |-> scenes[k].duration,
         thumbnail_path |-> scenes[k].thumbnail_path]]

\* SceneDetector.import_scene_data lines 249-260: six fields read with s[...],
\* thumbnail_path with s.get, which gives None for a dictionary without the key
import_scene_data(data) ==
    [k \in 1..Len(data) |->
        [scene_number |-> data[k].scene_number,
         start_frame |-> data[k].start_frame,
         end_frame |-> data[k].end_frame,
         start_time |-> data[k].start_time,
         end_time |-> data[k].end_time,
         duration |-> data[k].duration,
         thumbnail_path |-> IF "thumbnail_path" \in DOMAIN data[k]
                            THEN data[k].thumbnail_path ELSE "None"]]

\* ================================================================ presets
\* longest preset list modelled
MaxPresets == 3

\* _get_default_presets lines 84-96: the built-in preset, without an 'editable' key
DefaultPresets ==
    <<[id |-> "webflow_standard", name |-> "Webflow Standard", editable |-> "absent"]>>

PresetIds == {"webflow_standard", "custom"}

\* the preset dictionaries a caller passes: the name may be another preset's id,
\* the 'editable' key may be true, false or missing
PresetDicts ==
    [id : PresetIds, name : {"Webflow Standard", "custom"},
     editable : {"true", "false", "absent"}]

\* a manager that takes every preset for a custom one
editable_unchecked(p) == TRUE

\* p.get('editable', False) (lines 230 and 259)
editable(p) == p.editable = "true"

\* the enumerate loops of update_preset and delete_preset (lines 227-228,
\* 256-257): the index of the first preset with that id, 0 when there is none
first_with_id(list, preset_id) ==
    IF \E k \in 1..Len(list) : list[k].id = preset_id
    THEN CHOOSE k \in 1..Len(list) :
             /\ list[k].id = preset_id
             /\ \A j \in 1..(k - 1) : list[j].id # preset_id
    ELSE 0

\* get_preset lines 165-168: the index of the first preset with that id or that
\* name, 0 for None
get_preset(list, preset_id) ==
    IF \E k \in 1..Len(list) : list[k].id = preset_id \/ list[k].name = preset_id
    THEN CHOOSE k \in 1..Len(list) :
             /\ list[k].id = preset_id \/ list[k].name = preset_id
             /\ \A j \in 1..(k - 1) : list[j].id # preset_id /\ list[j].name # preset_id
    ELSE 0

\* ConfigManager.__init__ without a presets file
InitPresets ==
    /\ presets = DefaultPresets
    /\ preset_call = [op |-> "none", preset_id |-> "", result |-> FALSE]

\* ConfigManager.add_preset: the preset is appended, whatever its id, and the
\* result is that of save_presets
AddPreset(preset, save_ok) ==
    /\ Len(presets) < MaxPresets
    /\ presets' = Append(presets, preset)
    /\ preset_call' = [op |-> "add", preset_id |-> preset.id, result |-> save_ok]
    /\ UNCHANGED <<scene_data, scenes_imported, scenes_exported>>
    /\ UNCHANGED <<batch_vars, store_vars, pipe_vars>>

\* ConfigManager.update_preset
UpdatePreset(preset_id, preset, save_ok) ==
    /\ LET found == first_with_id(presets, preset_id)
       IN  IF found = 0 \/ ~editable(presets[found])
           THEN /\ UNCHANGED presets
                /\ preset_call' = [op |-> "update", preset_id |-> preset_id, result |-> FALSE]
           ELSE /\ presets' = [presets EXCEPT ![found] = preset]
                /\ preset_call' = [op |-> "update", preset_id |-> preset_id,
                                   result |-> save_ok]
    /\ UNCHANGED <<scene_data, scenes_imported, scenes_exported>>
    /\ UNCHANGED <<batch_vars, store_vars, pipe_vars>>

\* ConfigManager.delete_preset
DeletePreset(preset_id, save_ok) ==
    /\ LET found == first_with_id(presets, preset_id)
       IN  IF found = 0 \/ ~editable(presets[found])
           THEN /\ UNCHANGED presets
                /\ preset_call' = [op |-> "delete", preset_id |-> preset_id, result |-> FALSE]
           ELSE /\ presets' = SubSeq(presets, 1, found - 1)
                                  \o SubSeq(presets, found + 1, Len(presets))
                /\ preset_call' = [op |-> "delete", preset_id |-> preset_id,
                                   result |-> save_ok]
    /\ UNCHANGED <<scene_data, scenes_imported, scenes_exported>>
    /\ UNCHANGED <<batch_vars, store_vars, pipe_vars>>

NextPresets ==
    \/ \E preset \in PresetDicts, save_ok \in BOOLEAN : AddPreset(preset, save_ok)
    \/ \E preset_id \in PresetIds, preset \in PresetDicts, save_ok \in BOOLEAN :
          UpdatePreset(preset_id, preset, save_ok)
    \/ \E preset_id \in PresetIds, save_ok \in BOOLEAN : DeletePreset(preset_id, save_ok)

\* the dictionaries import_scene_data accepts: the seven fields of a detected
\* scene, with or without a thumbnail, or the six it requires
SceneDicts ==
    UNION {{FullScene(k, CutTimes[k], CutTimes[k + 1], "None"),
            FullScene(k, CutTimes[k], CutTimes[k + 1], "thumb.jpg"),
            WithoutKeys(FullScene(k, CutTimes[k], CutTimes[k + 1], "None"),
                        {"thumbnail_path"})} : k \in 1..MaxScenes}

SceneDataInputs == SeqsUpTo(SceneDicts, MaxSceneData)

NotDone == [done |-> FALSE, value |-> <<>>]

InitScenes(inputs) ==
    /\ scene_data \in inputs
    /\ scenes_imported = NotDone
    /\ scenes_exported = NotDone

\* no scene data imported or exported, the presets as loaded
InitLibIdle == InitScenes({<<>>}) /\ InitPresets

\* SceneDetector.import_scene_data
ImportSceneData ==
    /\ ~scenes_imported.done
    /\ scenes_imported' = [done |-> TRUE, value |-> import_scene_data(scene_data)]
    /\ UNCHANGED <<scene_data, scenes_exported, presets, preset_call>>
    /\ UNCHANGED <<batch_vars, store_vars, pipe_vars>>

\* SceneDetector.export_scene_data
ExportSceneData ==
    /\ scenes_imported.done
    /\ ~scenes_exported.done
    /\ scenes_exported' = [done |-> TRUE, value |-> export_scene_data(scenes_imported.value)]
    /\ UNCHANGED <<scene_data, scenes_imported, presets, preset_call>>
    /\ UNCHANGED <<batch_vars, store_vars, pipe_vars>>

NextSceneData ==
    \/ ImportSceneData
    \/ ExportSceneData

\* ========================================================= specifications
\* a fixed scanned folder for the specifications that do not run a batch
InitBatchIdle ==
    /\ InitBatchWith({[i \in FileIds |-> NewMediaFile("image", TRUE)]})
    /\ parallel_images = TRUE
    /\ max_workers = MaxWorkers

InitBatchSpec == InitBatch /\ InitStore /\ InitPipe /\ InitLibIdle

InitOther == InitBatchIdle /\ InitStore /\ InitPipe /\ InitLibIdle

\* BatchProcessor.process_all with cancel() arriving at any moment
SpecBatch == InitBatchSpec /\ [][NextBatch]_vars

\* the StateManager API called in any order by one thread
SpecStore == InitOther /\ [][NextStore]_vars

\* sessions created and updated over the days, with get_resumable_session
\* called at any moment
SpecResume == InitOther /\ [][NextResume]_vars

\* workers inside log_operation at the same time, each on a connection of its own
\* to the one database with the same session loaded (a second thread on the
\* creating thread's connection is refused by sqlite3 before it reads anything)
SpecLog == InitOther /\ [][NextLog]_vars

\* every master and selection, at the last run the bound on runs leaves
InitClips ==
    InitBatchIdle /\ InitStore /\ InitPipeFrom(UserInputs, MaxRuns - 1) /\ InitLibIdle

\* the phase-2 pipeline over every master and every selection within the bounds
SpecClips == InitClips /\ [][NextPipeline]_vars

\* the masters within the bounds, the selection window not yet opened
InitSelect ==
    /\ InitBatchIdle /\ InitStore /\ InitLibIdle
    /\ InitPipeFrom({NewWindow(n) : n \in 0..MaxScenes}, MaxRuns - 1)

\* the phase-2 pipeline with the user acting on the selection window step by step
SpecSelect == InitSelect /\ [][NextSelect]_vars

\* the phase-2 pipeline with the process killed at any point between two stages
SpecCrash == InitOther /\ [][NextCrash]_vars

\* presets added, updated and deleted in any order
SpecPresets == InitOther /\ [][NextPresets]_vars

\* worker threads calling update_progress at the same time
SpecProgress == InitOther /\ [][NextProgress]_vars

InitNoSession ==
    InitBatchIdle /\ InitStoreOver(ExistingDatabases) /\ InitPipe /\ InitLibIdle

\* the calls that need an active session, on a store opened over an empty or a
\* used database
SpecNoSession == InitNoSession /\ [][NextNoSession]_vars

InitSceneData ==
    InitBatchIdle /\ InitStore /\ InitPipe /\ InitScenes(SceneDataInputs) /\ InitPresets

\* scene data of every shape within the bounds, imported and exported again
SpecSceneData == InitSceneData /\ [][NextSceneData]_vars

\* the phase-2 pipeline, run after run in one process
SpecPipeline == InitOther /\ [][NextPipeline]_vars

\* ================================================================= claims
\* the operation_log rows of one session, in insert order
SessionRows(sid) == SelectSeq(operation_log, LAMBDA r : r.session_id = sid)

\* C1 (checked under SpecLog): whatever the interleaving of concurrent
\* log_operation callers, the sequence numbers logged for a session are pairwise
\* distinct and are exactly 1..n, n being the number of rows logged for it.
C1_SequenceNumbersExact ==
    \A sid \in 1..Len(processing_state) :
        LET rows == SessionRows(sid) IN
        /\ \A a, b \in 1..Len(rows) :
               a # b => rows[a].sequence_number # rows[b].sequence_number
        /\ {rows[k].sequence_number : k \in 1..Len(rows)} = 1..Len(rows)

\* C2 (checked under SpecStore): in every step of the store, no session's
\* completed_operations decreases and none exceeds its total_operations.
C2_CompletedMonotoneBounded ==
    [][\A sid \in 1..Len(processing_state) :
          /\ processing_state'[sid].completed_operations
                >= processing_state[sid].completed_operations
          /\ processing_state'[sid].completed_operations
                <= processing_state'[sid].total_operations]_vars

\* the state machine: initialized -> processing -> {completed, failed},
\* processing <-> paused
AllowedTransition(a, b) ==
    \/ a = b
    \/ <<a, b>> \in {<<"initialized", "processing">>, <<"processing", "completed">>,
                     <<"processing", "failed">>, <<"processing", "paused">>,
                     <<"paused", "processing">>}

\* C3 (checked under SpecPipeline): every step changes a session's status only
\* along the state machine; in particular a completed or failed session keeps
\* its status in every later step.
C3_StatusStateMachine ==
    [][\A sid \in 1..Len(processing_state) :
          AllowedTransition(processing_state[sid].status,
                            processing_state'[sid].status)]_vars

\* place of each stage in the fixed stage order
StageIndex(stage) ==
    CASE stage = "copy_master" -> 1
      [] stage = "optimize_master" -> 2
      [] stage = "detect_scenes" -> 3
      [] stage = "thumbnails" -> 4
      [] stage = "generate_clips" -> 5
      [] stage = "extract_stills" -> 6
      [] stage = "compress_stills" -> 7
      [] OTHER -> 8

\* the stage that records each update_progress operation name
OperationStage(operation) ==
    CASE operation = "" -> 0
      [] operation = "copy_master" -> 1
      [] operation = "optimize_master" -> 2
      [] operation = "scene_detection" -> 4
      [] operation = "generate_clips" -> 5
      [] operation = "extract_stills_hq" -> 6
      [] OTHER -> 7

\* C4 (checked under SpecPipeline): once a stage of a run has failed, the run's
\* session is failed with a non-empty error_message and the last progress it
\* holds was recorded by a stage before the failed one.
C4_StageFailureAborts ==
    (failed_stage # "none" /\ run_session # 0) =>
        /\ processing_state[run_session].status = "failed"
        /\ processing_state[run_session].error_message # ""
        /\ OperationStage(processing_state[run_session].current_operation)
               < StageIndex(failed_stage)

\* C5 (checked under SpecBatch): the counts process_all returns for a batch with
\* an enabled item add up to the number of enabled items.
C5_CountsAddUp ==
    summary.kind = "summary" =>
        summary.processed + summary.failed + summary.skipped = total_files

\* C6 (checked under SpecBatch): no compositor call starts after process_all has
\* observed the cancel flag.
C6_NoStartAfterObserved == late_started = {}

\* C7 (checked under SpecBatch): when cancellation was observed with K items
\* started, process_all returns processed + failed = K and skipped = N - K.
C7_SkippedNeverStarted ==
    (summary.kind = "summary" /\ observed) =>
        /\ summary.processed + summary.failed = Cardinality(started_at_observe)
        /\ summary.skipped = total_files - Cardinality(started_at_observe)

\* C8 (checked under SpecBatch): the 'current' values handed to progress_callback
\* never decrease and never exceed 'total'.
C8_ProgressMonotone ==
    \A k \in 1..Len(progress_calls) :
        /\ progress_calls[k] <= total_files
        /\ k > 1 => progress_calls[k - 1] <= progress_calls[k]

VideosInProgress == {i \in in_progress : media_files[i].type = "video"}

ImagesInProgress == {i \in in_progress : media_files[i].type = "image"}

\* C9 (checked under SpecBatch): at every moment at most one video is inside the
\* compositor, and at most max_workers images are.
C9_VideosOneAtATime ==
    /\ Cardinality(VideosInProgress) <= 1
    /\ Cardinality(ImagesInProgress) <= max_workers

\* C9 witness: a mixed batch under a pool of two or more workers in which images
\* did overlap and a video is now inside the compositor
C9_Witness ==
    /\ max_workers >= 2
    /\ peak_images >= 2
    /\ VideosInProgress # {}

Enabled == SeqToSet(files_to_process)

\* C10 (checked under SpecBatch): the mark and the count of an item follow from
\* what the compositor did with that item alone, and a run that was not
\* cancelled has called the compositor on every enabled item, whatever failed.
C10_ErrorIsolation ==
    /\ \A i \in FileIds :
          behaviour[i] # "unknown" =>
              /\ media_files[i].processed = (behaviour[i] = "ok")
              /\ (media_files[i].error_message # "") = (behaviour[i] # "ok")
    /\ (summary.kind = "summary" /\ ~summary.cancelled) =>
          /\ started = Enabled
          /\ \A i \in Enabled : behaviour[i] # "unknown"
          /\ summary.processed = Cardinality({i \in Enabled : behaviour[i] = "ok"})
          /\ summary.failed = Cardinality({i \in Enabled : behaviour[i] # "ok"})

\* C10 witness: a run that was not cancelled has returned; one item raised, an
\* item of the same type processed after it succeeded
C10_Witness ==
    /\ summary.kind = "summary"
    /\ ~summary.cancelled
    /\ \E i, j \in Enabled :
          /\ i < j
          /\ media_files[i].type = media_files[j].type
          /\ behaviour[i] = "raise"
          /\ behaviour[j] = "ok"
          /\ media_files[j].processed

\* C11 (checked under SpecBatch): from the moment process_all builds its summary
\* on, no compositor call is in progress and every call that had started when the
\* cancel flag was observed has returned and left its mark.
C11_StartedWorkCompletes ==
    bpc \in {"summary", "summary_cancelled", "returned"} =>
        /\ in_progress = {}
        /\ observed => \A i \in started_at_observe : behaviour[i] # "unknown"

\* C11 witness: process_all has returned from a run in which a call was inside
\* the compositor at the moment the flag was observed
C11_Witness ==
    /\ summary.kind = "summary"
    /\ observed
    /\ inflight_at_observe # {}
    /\ \A i \in inflight_at_observe : media_files[i].processed \/ media_files[i].error_message # ""

\* C12 (checked under SpecBatch): when process_all has returned from a batch with
\* an enabled item, the processing log holds exactly one entry for every enabled
\* item and no other entry.
C12_LogListsEveryItem ==
    summary.kind = "summary" =>
        /\ \A i \in Enabled :
              Cardinality({k \in 1..Len(process_log) : process_log[k].file = i}) = 1
        /\ \A k \in 1..Len(process_log) : process_log[k].file \in Enabled

\* C13 (checked under SpecResume): every get_resumable_session call returns
\* None or a session whose status is not initialized, completed or failed and
\* whose last update is at most 7 days old.
C13_ResumableNotTerminalNotOld ==
    [][GetResumableSession =>
          (resumable' # 0 =>
              /\ processing_state[resumable'].status
                     \notin {"initialized", "completed", "failed"}
              /\ now - processing_state[resumable'].updated_at <= 7)]_vars

\* C13 witness: the query has returned a session that is still the answer, while
\* the store also holds an unfinished session last updated more than 7 days ago
C13_Witness ==
    /\ resumable # 0
    /\ resumable \in latest_rows(processing_state, resumable_rows(processing_state, now))
    /\ \E q \in 1..Len(processing_state) :
          /\ processing_state[q].status \in {"processing", "paused"}
          /\ now - processing_state[q].updated_at > 7

\* a session is eligible for resume: processing or paused, updated within 7 days
Eligible(r) ==
    /\ processing_state[r].status \in {"processing", "paused"}
    /\ now - processing_state[r].updated_at < 7

EligibleRows == {r \in 1..Len(processing_state) : Eligible(r)}

\* C14 (checked under SpecResume): every get_resumable_session call returns None
\* exactly when no session is eligible, and otherwise an eligible session that no
\* eligible session was updated after.
C14_ResumableIsLatestEligible ==
    [][GetResumableSession =>
          /\ (resumable' = 0) = (EligibleRows = {})
          /\ resumable' # 0 =>
                /\ resumable' \in EligibleRows
                /\ \A q \in EligibleRows :
                      processing_state[q].updated_at
                          <= processing_state[resumable'].updated_at]_vars

\* C14 witness: the query has returned the later updated of two eligible
\* sessions, and it is not the one created last
C14_Witness ==
    /\ resumable # 0
    /\ resumable \in latest_rows(processing_state, resumable_rows(processing_state, now))
    /\ \E q \in EligibleRows :
          /\ q > resumable
          /\ processing_state[q].updated_at < processing_state[resumable].updated_at

\* C15 (checked under SpecPipeline): a session whose run was cancelled at scene
\* selection is never failed, has no error_message and holds no progress of the
\* clip, still or compress stages; and until another run is started the
\* application is in its Ready state.
C15_SelectionCancelAborts ==
    /\ \A s \in cancelled_runs :
          /\ processing_state[s].status # "failed"
          /\ processing_state[s].error_message = ""
          /\ processing_state[s].current_operation
                 \notin {"generate_clips", "extract_stills_hq", "compress_stills"}
    /\ run_session \in cancelled_runs =>
          /\ ppc = "ready"
          /\ process_btn = "normal"
          /\ status_var = "Ready"

\* the stages that follow scene selection
LateStages == {"generate_clips", "extract_stills", "compress_stills", "finalize",
               "after_completed"}

\* C16 (checked under SpecPipeline): while a run waits for the selection no later
\* stage is running and its session holds no progress of a later stage; a run is
\* in a later stage only after one callback with a selection, and no run is
\* resumed twice.
C16_SuspendsUntilSelection ==
    /\ resumed <= 1
    /\ ppc \in LateStages => resumed = 1
    /\ (ppc \in {"await_selection", "abandoned"} \/ resumed = 0) =>
          /\ ppc \notin LateStages
          /\ run_session # 0 =>
                processing_state[run_session].current_operation
                    \notin {"generate_clips", "extract_stills_hq", "compress_stills"}

\* C16 witness: a run was resumed by a selection and has recorded its clips
C16_Witness ==
    /\ resumed = 1
    /\ ppc = "extract_stills"
    /\ processing_state[run_session].current_operation = "generate_clips"

\* place of each stage in the order copy-master, optimize-master, detect-scenes,
\* generate-thumbnails, await-selection, generate-clips, extract-stills,
\* compress-stills, finalize (0: not one of the nine stages)
StageOrder(pc) ==
    CASE pc = "copy_master" -> 1
      [] pc = "optimize_master" -> 2
      [] pc = "detect_scenes" -> 3
      [] pc = "thumbnails" -> 4
      [] pc = "await_selection" -> 5
      [] pc = "generate_clips" -> 6
      [] pc = "extract_stills" -> 7
      [] pc = "compress_stills" -> 8
      [] pc = "finalize" -> 9
      [] OTHER -> 0

ClipsDone == ppc \in {"extract_stills", "compress_stills", "finalize", "after_completed"}

\* the still stage of the current run has ended
StillsDone == ppc \in {"compress_stills", "finalize", "after_completed"}

\* C18 (checked under SpecClips): when extract-stills has run, every scene of the
\* run (the detected scenes, or the single whole-video scene when none was
\* detected) has exactly one still request, at its midpoint, and there is no other
\* request: N requests for N detected scenes, whatever was selected or grouped.
C18_OneStillPerDetectedScene ==
    StillsDone =>
        /\ all_detected_scenes = scenes_or_single(user.detected)
        /\ Len(out.still_requests) = Len(all_detected_scenes)
        /\ user.detected >= 1 => Len(out.still_requests) = user.detected
        /\ \A k \in 1..Len(all_detected_scenes) :
              Cardinality({r \in 1..Len(out.still_requests) :
                  /\ out.still_requests[r].scene_number = all_detected_scenes[k].scene_number
                  /\ out.still_requests[r].twice_timestamp =
                         all_detected_scenes[k].start_time + all_detected_scenes[k].end_time}) = 1

\* C18 witness: stills were requested for three or more detected scenes in a run
\* in which no scene was selected individually
C18_Witness ==
    /\ StillsDone
    /\ user.detected >= 3
    /\ user.selected = {}
    /\ Len(out.still_requests) = user.detected

ClipsOfKind(kind) == {k \in 1..Len(out.clip_files) : out.clip_files[k].kind = kind}

\* C20 (checked under SpecPipeline): for scenes [0-5], [5-12], [12-20] with scene 1
\* selected and scenes 2 and 3 grouped, a run that has gone through the clip and
\* still stages has created exactly one individual clip, of 5 s, exactly one
\* grouped clip, of 8 s, and 3 stills.
C20_ScenarioOutputs ==
    (user = ScenarioInput /\ StillsDone) =>
        /\ Cardinality(ClipsOfKind("individual")) = 1
        /\ \A k \in ClipsOfKind("individual") : out.clip_files[k].duration = 5
        /\ Cardinality(ClipsOfKind("group")) = 1
        /\ \A k \in ClipsOfKind("group") : out.clip_files[k].duration = 8
        /\ Len(out.hq_files) = 3

\* the stages that work on the stored scene list: selection, clips, stills
ScenesHanded == {"await_selection", "generate_clips", "extract_stills", "compress_stills",
                 "finalize", "after_completed"}

\* C21 (checked under SpecClips): when the detector reports no boundary, the scene
\* list the pipeline goes on with is exactly one scene, numbered 1, from 0 to the
\* full duration of the master; so the list handed to the selection window and
\* to the still extraction is never empty.
C21_ZeroBoundariesOneScene ==
    ppc \in ScenesHanded =>
        /\ all_detected_scenes # <<>>
        /\ user.detected = 0 =>
             all_detected_scenes =
                 <<[scene_number |-> 1, start_time |-> 0, end_time |-> info_duration,
                    duration |-> info_duration]>>

\* a master without a cut has had its stills requested
C21_Witness ==
    /\ user.detected = 0
    /\ ppc = "compress_stills"
    /\ Len(out.still_requests) = 1
    /\ out.still_requests[1].twice_timestamp = info_duration

\* C22 (checked under SpecClips): for a detector result of N >= 1 ordered pairs,
\* the scene list has N scenes, scene_number runs 1..N in list order, and
\* start_time does not decrease along it.
C22_SceneNumbersContiguous ==
    (ppc \in ScenesHanded /\ user.detected >= 1) =>
        /\ Len(all_detected_scenes) = user.detected
        /\ \A k \in 1..Len(all_detected_scenes) : all_detected_scenes[k].scene_number = k
        /\ \A j, k \in 1..Len(all_detected_scenes) :
             j <= k => all_detected_scenes[j].start_time <= all_detected_scenes[k].start_time

\* the largest detector result has been converted and handed to the selection window
C22_Witness ==
    /\ user.detected = MaxScenes
    /\ ppc = "await_selection"
    /\ Len(all_detected_scenes) = MaxScenes

\* C23 (checked under SpecSelect): an attempt to build a group while fewer than 2
\* scenes are ticked leaves the list of groups as it was, and no group of fewer
\* than 2 scenes is held by the window or handed to the clip generation.
C23_SmallGroupRejected ==
    /\ [][(AddToGroup /\ Cardinality(user.selected) < 2) => user'.groups = user.groups]_vars
    /\ [](/\ \A g \in 1..Len(user.groups) : Cardinality(user.groups[g]) >= 2
          /\ \A g \in 1..Len(out.group_attempts) : Len(out.group_attempts[g]) >= 2)

\* a group went to the clip generation while a single scene was ticked: that
\* scene was exported alone and made no group
C23_Witness ==
    /\ ppc = "extract_stills"
    /\ Len(out.group_attempts) = 1
    /\ Cardinality(user.selected) = 1
    /\ out.clip_attempts # <<>>

\* C24 as stated (checked under SpecSceneData): exporting what import_scene_data
\* made of a list of scene dictionaries gives the list back, for every list
\* import_scene_data accepts.
C24_RoundTripAnyAccepted ==
    scenes_exported.done => scenes_exported.value = scene_data

\* C24, amended (checked under SpecSceneData): exporting what import_scene_data
\* made of a list gives the list back, same dictionaries in the same order, for
\* every list whose dictionaries carry all seven fields, thumbnail_path included.
C24_RoundTripFullRecords ==
    (/\ scenes_exported.done
     /\ \A k \in 1..Len(scene_data) : DOMAIN scene_data[k] = RequiredKeys \cup {"thumbnail_path"})
        => scenes_exported.value = scene_data

\* a list of two different full dictionaries, one with a thumbnail, has made the round trip
C24_Witness ==
    /\ scenes_exported.done
    /\ Len(scene_data) = 2
    /\ \A k \in 1..2 : DOMAIN scene_data[k] = RequiredKeys \cup {"thumbnail_path"}
    /\ scene_data[1].thumbnail_path = "thumb.jpg"
    /\ scene_data[2].thumbnail_path = "None"
    /\ scene_data[1].scene_number # scene_data[2].scene_number

\* C25 (checked under SpecProgress): when every worker has called update_progress
\* with a session active, completed_operations stands exactly one higher per
\* worker, whatever the interleaving.
C25_NoLostIncrement ==
    (\A w \in Workers : wpc[w] \in {"done", "refused"}) =>
        Sum([r \in 1..Len(processing_state) |-> processing_state[r].completed_operations])
            = NumWorkers

\* C26 (checked under SpecPipeline): every file the pipeline has written for a
\* session (master copy, optimized master, clips, stills, compressed stills) has
\* a row in the file registry that refers to that session.
C26_ArtifactsRegistered ==
    \A a \in artifacts :
        \E r \in 1..Len(file_registry) :
            /\ file_registry[r].session_id = a.session_id
            /\ file_registry[r].file_path = a.kind

\* C27 (checked under SpecPresets): update_preset and delete_preset that find a
\* preset whose 'editable' flag is false or missing return False and leave the
\* preset list as it was, whatever was added, updated and deleted before.
C27_BuiltinPresetProtected ==
    [][(/\ preset_call'.op \in {"update", "delete"}
        /\ first_with_id(presets, preset_call'.preset_id) # 0
        /\ presets[first_with_id(presets, preset_call'.preset_id)].editable
               \in {"false", "absent"})
       => (~preset_call'.result /\ presets' = presets)]_vars

\* delete_preset was refused for the built-in preset after custom presets were
\* added to the list
C27_Witness ==
    /\ preset_call = [op |-> "delete", preset_id |-> "webflow_standard", result |-> FALSE]
    /\ Len(presets) = MaxPresets
    /\ presets[1] = DefaultPresets[1]
    /\ \E k \in 2..Len(presets) : presets[k].editable = "true"

\* C28 (checked under SpecPresets): once delete_preset(id) has returned True,
\* get_preset(id) returns None.
C28_DeletedPresetGone ==
    (preset_call.op = "delete" /\ preset_call.result)
        => get_preset(presets, preset_call.preset_id) = 0

\* the working stages of the fixed order
WorkingStages == {"copy_master", "optimize_master", "detect_scenes", "thumbnails",
                  "generate_clips", "extract_stills", "compress_stills"}

\* the stages of the current run that ended well before the pipeline reached pc
SucceededBefore(pc) ==
    {st \in WorkingStages : StageOrder(st) < StageOrder(pc)}
        \ (IF failed_stage = "optimize_master" THEN {"optimize_master"} ELSE {})

\* C29 (checked under SpecCrash): when the process is killed between two stages,
\* the session it leaves counts every stage that ended well before the crash and
\* no other, and names the last of them as its current operation.
C29_CrashReflectsLastStage ==
    (crash_point # "none" /\ run_session # 0) =>
        /\ processing_state[run_session].completed_operations
               = Cardinality(SucceededBefore(crash_point))
        /\ OperationStage(processing_state[run_session].current_operation)
               = Max({0} \cup {StageIndex(st) : st \in SucceededBefore(crash_point)})

\* C30 (checked under SpecBatch): every encoder invocation is bounded by an
\* explicit timeout: the calls the pipeline makes carry one, and whenever the
\* batch compositor has the encoder running on a video, that call carries one.
C30_EncoderCallsBounded ==
    /\ \A caller \in {"optimize_master_video", "generate_thumbnails", "extract_scene_clip",
                      "concatenate_scenes", "extract_frame"} :
          run_command_timeout(caller) > 0
    /\ VideosInProgress # {} => run_command_timeout("_process_video") > 0

\* the file names of one batch_extract_stills call are pairwise distinct: the
\* tasks of one call share artwork_name, file_type and aspect_ratio and differ
\* in their place in the timestamps
StillNamesDistinct ==
    \A artwork_name \in SafeProjects, aspect_ratio \in AspectSuffixes :
        \A i, j \in 0..MaxNumber :
            i # j => still_filename(i, artwork_name, <<"H", "Q">>, aspect_ratio)
                        # still_filename(j, artwork_name, <<"H", "Q">>, aspect_ratio)

\* files of one process_all run share project_name and output_dir; their
\* templates and extensions may or may not differ
OutputNamesDistinct(s1, s2) ==
    \A project \in SafeProjects, t1 \in TemplateIds, t2 \in TemplateIds,
       e1 \in Extensions, e2 \in Extensions :
        generate_output_filename(s1, project, t1, e1)
            # generate_output_filename(s2, project, t2, e2)

\* any two distinct sequence numbers give distinct names to files that agree in
\* everything else
SequenceNamesDistinct ==
    \A s1 \in 1..MaxNumber : \A s2 \in (1..MaxNumber) \ {s1} :
        generate_output_filename(s1, <<"1">>, <<"1", "6", "-", "9">>, <<".", "j", "p", "g">>)
            # generate_output_filename(s2, <<"1">>, <<"1", "6", "-", "9">>, <<".", "j", "p", "g">>)

\* C31 (checked under SpecBatch): no two work items that can run at the same
\* time write the same destination path: the images inside the compositor at
\* the same moment have pairwise distinct output file names (in one output_dir),
\* whatever their templates and extensions, any two distinct sequence numbers
\* give distinct names, and the stills one batch_extract_stills call extracts
\* in parallel have pairwise distinct file names.
C31_ConcurrentPathsDistinct ==
    /\ \A i \in ImagesInProgress : \A j \in ImagesInProgress \ {i} :
          OutputNamesDistinct(sequence(i), sequence(j))
    /\ SequenceNamesDistinct
    /\ StillNamesDistinct

\* C31 witness: two images are inside the compositor at the same moment
C31_Witness == Cardinality(ImagesInProgress) >= 2

\* C32 (checked under SpecPipeline): a failure in a run changes the status only
\* of the session that run created: while a run has no session of its own, no
\* step changes the status or the error_message of a session that exists.
C32_FailureTouchesOwnSessionOnly ==
    [][run_session = 0 =>
         \A sid \in 1..Len(processing_state) :
             /\ processing_state'[sid].status = processing_state[sid].status
             /\ processing_state'[sid].error_message = processing_state[sid].error_message]_vars

\* C33 (checked under SpecPipeline): every invocation of process_video either
\* suspends at the scene selection or leaves the application Ready with the
\* process button enabled: whenever process_video has returned and no selection
\* is awaited, the button is enabled and the status line reads "Ready".
C33_EntryPointReturnsReady ==
    ppc \in {"ready", "returned"} => process_btn = "normal" /\ status_var = "Ready"

\* C34 (checked under SpecPipeline): after a cancel at scene selection the
\* session's persisted status stays "processing", so that get_resumable_session
\* can return the session as long as its last update is less than 7 days old.
C34_CancelledStaysResumable ==
    \A s \in cancelled_runs :
        /\ processing_state[s].status = "processing"
        /\ processing_state[s].updated_at > now - ResumeWindow =>
              s \in resumable_rows(processing_state, now)

\* the entries of the processing log with the given status
LogCount(outcome) ==
    Cardinality({k \in 1..Len(process_log) : process_log[k].outcome = outcome})

\* C35 (checked under SpecBatch): in a processing log that was written to its
\* end, the numbers of items listed as SUCCESS, FAILED and SKIPPED equal the
\* processed, failed and skipped counts of the summary process_all returns.
C35_LogMatchesSummary ==
    (summary.kind = "summary" /\ Len(process_log) = total_files) =>
        /\ LogCount("processed") = summary.processed
        /\ LogCount("failed") = summary.failed
        /\ LogCount("skipped") = summary.skipped

\* C36 (checked under SpecBatch): the summary's cancelled is true exactly when
\* cancel() was called after process_all cleared the flag on entry (the flag is
\* set) and before the summary was built, and a summary with cancelled true has
\* success false.
C36_CancelledMeansNoSuccess ==
    summary.kind = "summary" =>
        /\ summary.cancelled <=> cancelled
        /\ summary.cancelled => ~summary.success

\* C37 (checked under SpecBatch): while a video is inside the compositor no
\* image task of the run is queued or running and no image is inside the
\* compositor: every submitted image task finished before the first video began.
C37_ImagesFinishBeforeVideos ==
    VideosInProgress # {} =>
        /\ ImagesInProgress = {}
        /\ \A i \in FileIds : future[i] \notin {"pending", "running"}

\* C37 witness: a video is inside the compositor after two image tasks were
\* submitted to the pool and have finished
C37_Witness ==
    /\ VideosInProgress # {}
    /\ Cardinality({i \in FileIds : future[i] = "finished"}) >= 2

\* C38 (checked under SpecPipeline): every session of the phase-2 pipeline has
\* total_operations = 9, its completed_operations never exceeds 6, the number of
\* stages that record progress, and a completed session has completed_operations
\* strictly below total_operations.
C38_ProgressBelowTotal ==
    \A sid \in 1..Len(processing_state) :
        /\ processing_state[sid].total_operations = 9
        /\ processing_state[sid].completed_operations <= 6
        /\ processing_state[sid].completed_operations <= Cardinality(Operations)
        /\ processing_state[sid].status = "completed" =>
              processing_state[sid].completed_operations
                  < processing_state[sid].total_operations

\* C38 witness: a run went through every stage and its session is completed,
\* with the progress of five stages recorded
C38_Witness ==
    /\ ppc = "after_completed"
    /\ run_session # 0
    /\ processing_state[run_session].status = "completed"
    /\ processing_state[run_session].completed_operations = 5

\* C39 (checked under SpecNoSession): a step taken while the store has no active
\* session, and that does not make one active, leaves every table unchanged;
\* update_progress and log_operation called without an active session end in the
\* error and nothing else; and the active session only ever changes to a
\* session that exists, so load_session with an unknown id leaves it unchanged.
C39_NoSessionNoChange ==
    /\ [][(session_id = 0 /\ session_id' = 0) =>
             UNCHANGED <<processing_state, operation_log, file_registry>>]_vars
    /\ [][session_id = 0 =>
             \A w \in Workers :
                 wpc'[w] # wpc[w] => wpc'[w] \in {"raised", "no_session"}]_vars
    /\ [][session_id' # session_id => session_id' \in 1..Len(processing_state')]_vars

\* C39 witness: over a used database and with no active session, one caller's
\* log_operation and another's update_progress have raised, and the tables
\* hold what they held
C39_Witness ==
    /\ session_id = 0
    /\ processing_state # <<>>
    /\ operation_log # <<>>
    /\ \E w \in Workers : wpc[w] = "raised"
    /\ \E w \in Workers : wpc[w] = "no_session"

====
